---------------------------- MODULE Spec2Model ----------------------------
(***************************************************************************)
(* The repair scripts of MikrotikBilling (src/scripts/fix-*.py): each one  *)
(* reads a Target file as text, applies an ordered table of literal        *)
(* (old, new) substitutions with str.replace, writes the text back to the  *)
(* same path and prints a status line.                                     *)
(*                                                                         *)
(* A text is a sequence of characters, each character a string.  The       *)
(* backtick is written "BACKTICK", a byte the text encoding cannot decode  *)
(* is written "0xFF".  The Target on disk holds bytes; reading decodes     *)
(* them (Python's text mode: universal newlines) and writing encodes them  *)
(* (every "\n" becomes os.linesep).                                        *)
(***************************************************************************)
EXTENDS Integers, Sequences, FiniteSets, TLC

LF == "\n"
CR == "\r"
BadByte == "0xFF"

----------------------------------------------------------------------------
(* The rule tables, character by character, as the scripts write them.      *)

\* The rule table of fix-print-python.py (lines 9-58), in authoring order.
replacements ==
  << \* fix-print-python.py:10
     [old |-> <<"l","e","t"," ","a","l","l","V","o","u","c","h","e","r","s","H","T","M","L"," ","="," ",";">>,
      new |-> <<"l","e","t"," ","a","l","l","V","o","u","c","h","e","r","s","H","T","M","L"," ","="," ","'","'",";">>],
     \* fix-print-python.py:11
     [old |-> <<"v","o","u","c","h","e","r",".","v","o","u","c","h","e","r","_","c","o","d","e"," ","|","|"," ","'","'",";">>,
      new |-> <<"v","o","u","c","h","e","r",".","v","o","u","c","h","e","r","_","c","o","d","e"," ","|","|"," ","'","'",")",";">>],
     \* fix-print-python.py:12
     [old |-> <<"n","e","w"," ","D","a","t","e","(","v","o","u","c","h","e","r",".","c","r","e","a","t","e","d","_","a","t",")",".","t","o","L","o","c","a","l","e","D","a","t","e","S","t","r","i","n","g","(","'","i","d","-","I","D","'",")",";",")",";">>,
      new |-> <<"n","e","w"," ","D","a","t","e","(","v","o","u","c","h","e","r",".","c","r","e","a","t","e","d","_","a","t",")",".","t","o","L","o","c","a","l","e","D","a","t","e","S","t","r","i","n","g","(","'","i","d","-","I","D","'",")",")",";">>],
     \* fix-print-python.py:13
     [old |-> <<"f","o","r","m","a","t","C","u","r","r","e","n","c","y","(","v","o","u","c","h","e","r",".","p","r","i","c","e","_","s","e","l","l",")",".","r","e","p","l","a","c","e","(","'","R","p","'",","," ","BACKTICK",")",".","t","r","i","m","(",")",")",";">>,
      new |-> <<"f","o","r","m","a","t","C","u","r","r","e","n","c","y","(","v","o","u","c","h","e","r",".","p","r","i","c","e","_","s","e","l","l",")",".","r","e","p","l","a","c","e","(","'","R","p","'",","," ","'","'",")",".","t","r","i","m","(",")",")",";">>],
     \* fix-print-python.py:14
     [old |-> <<"[","t","e","m","p","l","a","t","e","_","n","a","m","e","]">>,
      new |-> <<"'","t","e","m","p","l","a","t","e","_","n","a","m","e","'","]">>],
     \* fix-print-python.py:15
     [old |-> <<"r","e","p","l","y",".","h","e","a","d","e","r","(","C","o","n","t","e","n","t","-","T","y","p","e",","," ","t","e","x","t","/","h","t","m","l","BACKTICK",")",";">>,
      new |-> <<"r","e","p","l","y",".","h","e","a","d","e","r","(","'","C","o","n","t","e","n","t","-","T","y","p","e","'",","," ","'","t","e","x","t","/","h","t","m","l","'",")",";">>],
     \* fix-print-python.py:16
     [old |-> <<"f","a","s","t","i","f","y",".","l","o","g",".","e","r","r","o","r","(","E","r","r","o","r"," ","p","r","i","n","t","i","n","g"," ","v","o","u","c","h","e","r","s",":",","," ","e","r","r","o","r",")",";">>,
      new |-> <<"f","a","s","t","i","f","y",".","l","o","g",".","e","r","r","o","r","(","'","E","r","r","o","r"," ","p","r","i","n","t","i","n","g"," ","v","o","u","c","h","e","r","s",":","'",","," ","e","r","r","o","r",")",";">>],
     \* fix-print-python.py:17
     [old |-> <<"r","e","p","l","y",".","s","t","a","t","u","s","(","5","0","0",")",".","v","i","e","w","(","e","r","r","o","r",","," ","{">>,
      new |-> <<"r","e","p","l","y",".","c","o","d","e","(","5","0","0",")",".","v","i","e","w","(","'","e","r","r","o","r","'",","," ","{">>],
     \* fix-print-python.py:18
     [old |-> <<"m","e","s","s","a","g","e",":"," ","I","n","t","e","r","n","a","l"," ","S","e","r","v","e","r"," ","E","r","r","o","r",",">>,
      new |-> <<"m","e","s","s","a","g","e",":"," ","'","I","n","t","e","r","n","a","l"," ","S","e","r","v","e","r"," ","E","r","r","o","r","'",",">>],
     \* fix-print-python.py:19
     [old |-> <<"i","f"," ","(","t","e","m","p","l","a","t","e","T","y","p","e"," ","=","=","="," ","'","a","4","'",")",";"," ","{">>,
      new |-> <<"i","f"," ","(","t","e","m","p","l","a","t","e","T","y","p","e"," ","=","=","="," ","'","a","4","'",")"," ","{">>],
     \* fix-print-python.py:20
     [old |-> <<"}"," ","e","l","s","e"," ","i","f"," ","(","t","e","m","p","l","a","t","e","T","y","p","e"," ","=","=","="," ","'","t","h","e","r","m","a","l","'",")",";"," ","{">>,
      new |-> <<"}"," ","e","l","s","e"," ","i","f"," ","(","t","e","m","p","l","a","t","e","T","y","p","e"," ","=","=","="," ","'","t","h","e","r","m","a","l","'",")"," ","{">>],
     \* fix-print-python.py:21
     [old |-> <<"r","e","t","u","r","n"," ",";">>,
      new |-> <<"r","e","t","u","r","n"," ","'","'",";">>],
     \* fix-print-python.py:22
     [old |-> <<"f","a","s","t","i","f","y",".","g","e","t","(","/","b","a","t","c","h","/",":","b","a","t","c","h","I","d",",">>,
      new |-> <<"f","a","s","t","i","f","y",".","g","e","t","(","'","/","b","a","t","c","h","/",":","b","a","t","c","h","I","d","'",",">>],
     \* fix-print-python.py:23
     [old |-> <<"r","e","p","l","y",".","s","t","a","t","u","s","(","4","0","4",")",".","v","i","e","w","(","e","r","r","o","r",","," ","{">>,
      new |-> <<"r","e","p","l","y",".","c","o","d","e","(","4","0","4",")",".","v","i","e","w","(","'","e","r","r","o","r","'",","," ","{">>],
     \* fix-print-python.py:24
     [old |-> <<"m","e","s","s","a","g","e",":"," ","B","a","t","c","h"," ","n","o","t"," ","f","o","u","n","d",",">>,
      new |-> <<"m","e","s","s","a","g","e",":"," ","'","B","a","t","c","h"," ","n","o","t"," ","f","o","u","n","d","'",",">>],
     \* fix-print-python.py:25
     [old |-> <<"e","r","r","o","r",":"," ","N","o"," ","v","o","u","c","h","e","r","s"," ","f","o","u","n","d"," ","f","o","r"," ","t","h","i","s"," ","b","a","t","c","h">>,
      new |-> <<"e","r","r","o","r",":"," ","'","N","o"," ","v","o","u","c","h","e","r","s"," ","f","o","u","n","d"," ","f","o","r"," ","t","h","i","s"," ","b","a","t","c","h","'">>],
     \* fix-print-python.py:26
     [old |-> <<"c","o","n","s","t"," ","f","s"," ","="," ","r","e","q","u","i","r","e","(","f","s","BACKTICK",")",";">>,
      new |-> <<"c","o","n","s","t"," ","f","s"," ","="," ","r","e","q","u","i","r","e","(","'","f","s","'",")",";">>],
     \* fix-print-python.py:27
     [old |-> <<"c","o","n","s","t"," ","p","a","t","h"," ","="," ","r","e","q","u","i","r","e","(","p","a","t","h","BACKTICK",")",";">>,
      new |-> <<"c","o","n","s","t"," ","p","a","t","h"," ","="," ","r","e","q","u","i","r","e","(","'","p","a","t","h","'",")",";">>],
     \* fix-print-python.py:28
     [old |-> <<"_","_","d","i","r","n","a","m","e",","," ",".",".","/",".",".","/","v","i","e","w","s","/","p","r","i","n","t","-","t","e","m","p","l","a","t","e","s","BACKTICK",")",";">>,
      new |-> <<"_","_","d","i","r","n","a","m","e",","," ","'",".",".","/",".",".","/","v","i","e","w","s","/","p","r","i","n","t","-","t","e","m","p","l","a","t","e","s","'",")",";">>],
     \* fix-print-python.py:29
     [old |-> <<"f","i","l","e",".","e","n","d","s","W","i","t","h","(",".","e","j","s","BACKTICK",")",";">>,
      new |-> <<"f","i","l","e",".","e","n","d","s","W","i","t","h","(","'",".","e","j","s","'",")",";">>],
     \* fix-print-python.py:30
     [old |-> <<"f","i","l","e",".","r","e","p","l","a","c","e","(",".","e","j","s",","," ","BACKTICK",")",";">>,
      new |-> <<"f","i","l","e",".","r","e","p","l","a","c","e","(","'",".","e","j","s","'",","," ","'","'",")",";">>],
     \* fix-print-python.py:31
     [old |-> <<"+"," ","T","e","m","p","l","a","t","e",",">>,
      new |-> <<"+"," ","'"," ","T","e","m","p","l","a","t","e","'",",">>],
     \* fix-print-python.py:32
     [old |-> <<"f","a","s","t","i","f","y",".","l","o","g",".","e","r","r","o","r","(","E","r","r","o","r"," ","g","e","t","t","i","n","g"," ","p","r","i","n","t"," ","t","e","m","p","l","a","t","e","s",":",","," ","e","r","r","o","r",")",";">>,
      new |-> <<"f","a","s","t","i","f","y",".","l","o","g",".","e","r","r","o","r","(","'","E","r","r","o","r"," ","g","e","t","t","i","n","g"," ","p","r","i","n","t"," ","t","e","m","p","l","a","t","e","s",":","'",","," ","e","r","r","o","r",")",";">>],
     \* fix-print-python.py:33
     [old |-> <<"f","a","s","t","i","f","y",".","l","o","g",".","e","r","r","o","r","(","E","r","r","o","r"," ","p","r","e","v","i","e","w","i","n","g"," ","p","r","i","n","t"," ","t","e","m","p","l","a","t","e",":",","," ","e","r","r","o","r",")",";">>,
      new |-> <<"f","a","s","t","i","f","y",".","l","o","g",".","e","r","r","o","r","(","'","E","r","r","o","r"," ","p","r","e","v","i","e","w","i","n","g"," ","p","r","i","n","t"," ","t","e","m","p","l","a","t","e",":","'",","," ","e","r","r","o","r",")",";">>],
     \* fix-print-python.py:34
     [old |-> <<"m","e","s","s","a","g","e",":"," ","F","a","i","l","e","d"," ","t","o"," ","p","r","e","v","i","e","w"," ","t","e","m","p","l","a","t","e",",">>,
      new |-> <<"m","e","s","s","a","g","e",":"," ","'","F","a","i","l","e","d"," ","t","o"," ","p","r","e","v","i","e","w"," ","t","e","m","p","l","a","t","e","'",",">>],
     \* fix-print-python.py:35
     [old |-> <<"p","r","i","n","t","M","o","d","e",":"," ",",">>,
      new |-> <<"p","r","i","n","t","M","o","d","e",":"," ","'","'",",">>],
     \* fix-print-python.py:36
     [old |-> <<"f","a","s","t","i","f","y",".","g","e","t","(","/","m","a","n","a","g","e",",">>,
      new |-> <<"f","a","s","t","i","f","y",".","g","e","t","(","'","/","m","a","n","a","g","e","'",",">>],
     \* fix-print-python.py:37
     [old |-> <<"r","e","p","l","y",".","v","i","e","w","(","'","p","r","i","n","t","/","m","a","n","a","g","e","'","'">>,
      new |-> <<"r","e","p","l","y",".","v","i","e","w","(","'","p","r","i","n","t","/","m","a","n","a","g","e","'">>],
     \* fix-print-python.py:38
     [old |-> <<"a","l","l","o","w","e","d","F","i","l","e","s"," ","="," ","[","t","e","m","p","l","a","t","e","_","a","4",".","h","t","m","l",","," ","t","e","m","p","l","a","t","e","_","t","h","e","r","m","a","l",".","h","t","m","l","]",";">>,
      new |-> <<"a","l","l","o","w","e","d","F","i","l","e","s"," ","="," ","[","'","t","e","m","p","l","a","t","e","_","a","4",".","h","t","m","l","'",","," ","'","t","e","m","p","l","a","t","e","_","t","h","e","r","m","a","l",".","h","t","m","l","'","]",";">>],
     \* fix-print-python.py:39
     [old |-> <<"f","s",".","r","e","a","d","F","i","l","e","S","y","n","c","(","f","i","l","e","P","a","t","h",","," ","u","t","f","8","BACKTICK",")",";">>,
      new |-> <<"f","s",".","r","e","a","d","F","i","l","e","S","y","n","c","(","f","i","l","e","P","a","t","h",","," ","'","u","t","f","8","'",")",";">>],
     \* fix-print-python.py:40
     [old |-> <<"r","e","p","l","y",".","l","o","c","a","l","s",".","s","e","t","t","i","n","g","s"," ","&","&"," ","r","e","p","l","y",".","l","o","c","a","l","s",".","s","e","t","t","i","n","g","s",".","c","o","m","p","a","n","y","_","n","a","m","e",")"," ","|","|"," ","W","i","F","i"," ","H","o","t","s","p","o","t","BACKTICK">>,
      new |-> <<"r","e","p","l","y",".","l","o","c","a","l","s",".","s","e","t","t","i","n","g","s"," ","&","&"," ","r","e","p","l","y",".","l","o","c","a","l","s",".","s","e","t","t","i","n","g","s",".","c","o","m","p","a","n","y","_","n","a","m","e",")"," ","|","|"," ","'","W","i","F","i"," ","H","o","t","s","p","o","t","'">>],
     \* fix-print-python.py:41
     [old |-> <<"v","o","u","c","h","e","r",".","v","e","n","d","o","r","_","n","a","m","e"," ","|","|"," ","T","a","n","p","a"," ","V","e","n","d","o","r","BACKTICK">>,
      new |-> <<"v","o","u","c","h","e","r",".","v","e","n","d","o","r","_","n","a","m","e"," ","|","|"," ","'","T","a","n","p","a"," ","V","e","n","d","o","r","'">>],
     \* fix-print-python.py:42
     [old |-> <<"n","e","w"," ","D","a","t","e","(","v","o","u","c","h","e","r",".","c","r","e","a","t","e","d","_","a","t",")",".","t","o","L","o","c","a","l","e","D","a","t","e","S","t","r","i","n","g","(","i","d","-","I","D","BACKTICK",")">>,
      new |-> <<"n","e","w"," ","D","a","t","e","(","v","o","u","c","h","e","r",".","c","r","e","a","t","e","d","_","a","t",")",".","t","o","L","o","c","a","l","e","D","a","t","e","S","t","r","i","n","g","(","'","i","d","-","I","D","'",")">>],
     \* fix-print-python.py:43
     [old |-> <<"f","o","r","m","a","t","C","u","r","r","e","n","c","y","(","v","o","u","c","h","e","r",".","p","r","i","c","e","_","s","e","l","l",")",".","r","e","p","l","a","c","e","(","R","p",","," ","BACKTICK",")",".","t","r","i","m","(",")">>,
      new |-> <<"f","o","r","m","a","t","C","u","r","r","e","n","c","y","(","v","o","u","c","h","e","r",".","p","r","i","c","e","_","s","e","l","l",")",".","r","e","p","l","a","c","e","(","'","R","p","'",","," ","'","'",")",".","t","r","i","m","(",")">>],
     \* fix-print-python.py:44
     [old |-> <<"t","e","m","p","l","a","t","e","N","a","m","e","R","e","s","u","l","t",".","v","a","l","u","e"," ",":"," ","D","e","f","a","u","l","t">>,
      new |-> <<"t","e","m","p","l","a","t","e","N","a","m","e","R","e","s","u","l","t",".","v","a","l","u","e"," ",":"," ","'","D","e","f","a","u","l","t","'">>],
     \* fix-print-python.py:45
     [old |-> <<"t","e","m","p","l","a","t","e"," ","=","=","="," ","a","4"," ","?"," ","c","s","s","S","t","y","l","e","s">>,
      new |-> <<"t","e","m","p","l","a","t","e"," ","=","=","="," ","'","a","4","'"," ","?"," ","c","s","s","S","t","y","l","e","s">>],
     \* fix-print-python.py:46
     [old |-> <<"t","e","m","p","l","a","t","e","T","y","p","e"," ","=","=","="," ","a","4","BACKTICK",")",";">>,
      new |-> <<"t","e","m","p","l","a","t","e","T","y","p","e"," ","=","=","="," ","'","a","4","'",")",";">>],
     \* fix-print-python.py:47
     [old |-> <<"t","e","m","p","l","a","t","e","T","y","p","e"," ","=","=","="," ","t","h","e","r","m","a","l","BACKTICK",")",";">>,
      new |-> <<"t","e","m","p","l","a","t","e","T","y","p","e"," ","=","=","="," ","'","t","h","e","r","m","a","l","'",")",";">>],
     \* fix-print-python.py:48
     [old |-> <<"t","e","m","p","l","a","t","e"," ","="," ","a","4",",">>,
      new |-> <<"t","e","m","p","l","a","t","e"," ","="," ","'","a","4","'",",">>],
     \* fix-print-python.py:49
     [old |-> <<"m","e","s","s","a","g","e",":"," ","'","F","a","i","l","e","d"," ","t","o"," ","g","e","t"," ","p","r","i","n","t"," ","t","e","m","p","l","a","t","e","s","'">>,
      new |-> <<"m","e","s","s","a","g","e",":"," ","'","F","a","i","l","e","d"," ","t","o"," ","g","e","t"," ","p","r","i","n","t"," ","t","e","m","p","l","a","t","e","s","'">>],
     \* fix-print-python.py:50
     [old |-> <<"f","a","s","t","i","f","y",".","g","e","t","(","/","b","a","t","c","h","/",":","b","a","t","c","h","I","d",",">>,
      new |-> <<"f","a","s","t","i","f","y",".","g","e","t","(","'","/","b","a","t","c","h","/",":","b","a","t","c","h","I","d","'",",">>],
     \* fix-print-python.py:51
     [old |-> <<"r","e","p","l","y",".","v","i","e","w","(","'","p","r","i","n","t","/","m","a","n","a","g","e","'","'">>,
      new |-> <<"r","e","p","l","y",".","v","i","e","w","(","'","p","r","i","n","t","/","m","a","n","a","g","e","'">>],
     \* fix-print-python.py:52
     [old |-> <<"r","e","p","l","y",".","v","i","e","w","(","'","p","r","i","n","t","/","m","a","n","a","g","e","'">>,
      new |-> <<"r","e","p","l","y",".","v","i","e","w","(","'","p","r","i","n","t","/","m","a","n","a","g","e","'",",">>],
     \* fix-print-python.py:53
     [old |-> <<"r","e","p","l","y",".","v","i","e","w","(","'","p","r","i","n","t","/","m","a","n","a","g","e","'",",">>,
      new |-> <<"r","e","p","l","y",".","v","i","e","w","(","'","p","r","i","n","t","/","m","a","n","a","g","e","'",",">>],
     \* fix-print-python.py:54
     [old |-> <<"m","e","s","s","a","g","e",":"," ","'","F","i","l","e"," ","n","o","t"," ","a","l","l","o","w","e","d","'">>,
      new |-> <<"m","e","s","s","a","g","e",":"," ","'","F","i","l","e"," ","n","o","t"," ","a","l","l","o","w","e","d","'">>],
     \* fix-print-python.py:55
     [old |-> <<"m","e","s","s","a","g","e",":"," ","'","F","i","l","e"," ","n","o","t"," ","f","o","u","n","d","'">>,
      new |-> <<"m","e","s","s","a","g","e",":"," ","'","F","i","l","e"," ","n","o","t"," ","f","o","u","n","d","'">>],
     \* fix-print-python.py:56
     [old |-> <<"a","u","t","o","_","p","r","i","n","t"," ","=","=","="," ","'","t","r","u","e","'">>,
      new |-> <<"a","u","t","o","_","p","r","i","n","t"," ","=","=","="," ","'","t","r","u","e","'">>],
     \* fix-print-python.py:57
     [old |-> <<"m","e","s","s","a","g","e",":"," ","BACKTICK","T","e","m","p","l","a","t","e"," ","$","{","t","e","m","p","l","a","t","e","}"," ","n","o","t"," ","f","o","u","n","d","BACKTICK">>,
      new |-> <<"m","e","s","s","a","g","e",":"," ","BACKTICK","T","e","m","p","l","a","t","e"," ","$","{","t","e","m","p","l","a","t","e","}"," ","n","o","t"," ","f","o","u","n","d","BACKTICK">>]
  >>

\* The content.replace(old, new) statements of fix-print-final2.py (lines 9-92), in order.
Final2Replacements ==
  << \* fix-print-final2.py:9
     [old |-> <<"v","o","u","c","h","e","r","H","T","M","L",".","r","e","p","l","a","c","e","(","/","{","H","a","r","g","a","J","u","a","l","}","/","g",","," ","f","o","r","m","a","t","C","u","r","r","e","n","c","y","(","v","o","u","c","h","e","r",".","p","r","i","c","e","_","s","e","l","l",")",".","r","e","p","l","a","c","e","(","R","p",","," ","BACKTICK",")",";",".","t","r","i","m","(",")",")",";">>,
      new |-> <<"v","o","u","c","h","e","r","H","T","M","L",".","r","e","p","l","a","c","e","(","/","{","H","a","r","g","a","J","u","a","l","}","/","g",","," ","f","o","r","m","a","t","C","u","r","r","e","n","c","y","(","v","o","u","c","h","e","r",".","p","r","i","c","e","_","s","e","l","l",")",".","r","e","p","l","a","c","e","(","'","R","p","'",","," ","'","'",")",".","t","r","i","m","(",")",")",";">>],
     \* fix-print-final2.py:14
     [old |-> <<"c","o","n","s","t"," ","t","e","m","p","l","a","t","e","N","a","m","e","R","e","s","u","l","t"," ","="," ","a","w","a","i","t"," ","d","b",".","q","u","e","r","y","(","BACKTICK","S","E","L","E","C","T"," ","v","a","l","u","e"," ","F","R","O","M"," ","s","e","t","t","i","n","g","s"," ","W","H","E","R","E"," ","k","e","y"," ","="," ","$","1","BACKTICK",","," ","'","t","e","m","p","l","a","t","e","_","n","a","m","e","'","]",")",";">>,
      new |-> <<"c","o","n","s","t"," ","t","e","m","p","l","a","t","e","N","a","m","e","R","e","s","u","l","t"," ","="," ","a","w","a","i","t"," ","d","b",".","q","u","e","r","y","(","BACKTICK","S","E","L","E","C","T"," ","v","a","l","u","e"," ","F","R","O","M"," ","s","e","t","t","i","n","g","s"," ","W","H","E","R","E"," ","k","e","y"," ","="," ","$","1","BACKTICK",","," ","[","'","t","e","m","p","l","a","t","e","_","n","a","m","e","'","]",")",";">>],
     \* fix-print-final2.py:19
     [old |-> <<"c","o","n","s","t"," ","t","e","m","p","l","a","t","e","N","a","m","e","R","e","s","u","l","t"," ","="," ","a","w","a","i","t"," ","d","b",".","q","u","e","r","y","(","BACKTICK","S","E","L","E","C","T"," ","v","a","l","u","e"," ","F","R","O","M"," ","s","e","t","t","i","n","g","s"," ","W","H","E","R","E"," ","k","e","y"," ","="," ","$","1","BACKTICK",","," ","'","t","e","m","p","l","a","t","e","_","n","a","m","e","'","]",")",";">>,
      new |-> <<"c","o","n","s","t"," ","t","e","m","p","l","a","t","e","N","a","m","e","R","e","s","u","l","t"," ","="," ","a","w","a","i","t"," ","d","b",".","q","u","e","r","y","(","BACKTICK","S","E","L","E","C","T"," ","v","a","l","u","e"," ","F","R","O","M"," ","s","e","t","t","i","n","g","s"," ","W","H","E","R","E"," ","k","e","y"," ","="," ","$","1","BACKTICK",","," ","[","'","t","e","m","p","l","a","t","e","_","n","a","m","e","'","]",")",";">>],
     \* fix-print-final2.py:24
     [old |-> <<"c","o","n","s","t"," ","f","s"," ","="," ","r","e","q","u","i","r","e","(","'","f","s","BACKTICK",")",";">>,
      new |-> <<"c","o","n","s","t"," ","f","s"," ","="," ","r","e","q","u","i","r","e","(","'","f","s","'",")",";">>],
     \* fix-print-final2.py:29
     [old |-> <<"i","f"," ","(","f","i","l","e",".","e","n","d","s","W","i","t","h","(","'",".","e","j","s","'",")",";",")">>,
      new |-> <<"i","f"," ","(","f","i","l","e",".","e","n","d","s","W","i","t","h","(","'",".","e","j","s","'",")",")">>],
     \* fix-print-final2.py:34
     [old |-> <<"+"," ","T","e","m","p","l","a","t","e",",">>,
      new |-> <<"+"," ","'"," ","T","e","m","p","l","a","t","e","'",",">>],
     \* fix-print-final2.py:39
     [old |-> <<"r","e","p","l","y",".","v","i","e","w","(","'","p","r","i","n","t","/","m","a","n","a","g","e","'",",">>,
      new |-> <<"r","e","p","l","y",".","v","i","e","w","(","'","p","r","i","n","t","/","m","a","n","a","g","e","'",",">>],
     \* fix-print-final2.py:44
     [old |-> <<"r","e","p","l","y",".","v","i","e","w","(","'","p","r","i","n","t","/","m","a","n","a","g","e","'",",",",">>,
      new |-> <<"r","e","p","l","y",".","v","i","e","w","(","'","p","r","i","n","t","/","m","a","n","a","g","e","'",",">>],
     \* fix-print-final2.py:49
     [old |-> <<"a","l","l","o","w","e","d","F","i","l","e","s"," ","="," ","[","t","e","m","p","l","a","t","e","_","a","4",".","h","t","m","l",","," ","t","e","m","p","l","a","t","e","_","t","h","e","r","m","a","l",".","h","t","m","l","]",";">>,
      new |-> <<"a","l","l","o","w","e","d","F","i","l","e","s"," ","="," ","[","'","t","e","m","p","l","a","t","e","_","a","4",".","h","t","m","l","'",","," ","'","t","e","m","p","l","a","t","e","_","t","h","e","r","m","a","l",".","h","t","m","l","'","]",";">>],
     \* fix-print-final2.py:54
     [old |-> <<"r","e","p","l","y",".","s","t","a","t","u","s","(","5","0","0",")",".","v","i","e","w","(","'","e","r","r","o","r","'",","," ","{">>,
      new |-> <<"r","e","p","l","y",".","c","o","d","e","(","5","0","0",")",".","v","i","e","w","(","'","e","r","r","o","r","'",","," ","{">>],
     \* fix-print-final2.py:59
     [old |-> <<"r","e","p","l","y",".","s","t","a","t","u","s","(","4","0","4",")",".","v","i","e","w","(","'","e","r","r","o","r","'",","," ","{">>,
      new |-> <<"r","e","p","l","y",".","c","o","d","e","(","4","0","4",")",".","v","i","e","w","(","'","e","r","r","o","r","'",","," ","{">>],
     \* fix-print-final2.py:64
     [old |-> <<"r","e","p","l","y",".","s","t","a","t","u","s","(","4","0","0",")",".","s","e","n","d","(","{">>,
      new |-> <<"r","e","p","l","y",".","c","o","d","e","(","4","0","0",")",".","s","e","n","d","(","{">>],
     \* fix-print-final2.py:69
     [old |-> <<"r","e","p","l","y",".","s","t","a","t","u","s","(","5","0","0",")",".","s","e","n","d","(","{">>,
      new |-> <<"r","e","p","l","y",".","c","o","d","e","(","5","0","0",")",".","s","e","n","d","(","{">>],
     \* fix-print-final2.py:74
     [old |-> <<"r","e","p","l","y",".","s","t","a","t","u","s","(","4","0","4",")",".","s","e","n","d","(">>,
      new |-> <<"r","e","p","l","y",".","c","o","d","e","(","4","0","4",")",".","s","e","n","d","(">>],
     \* fix-print-final2.py:79
     [old |-> <<"r","e","p","l","y",".","s","t","a","t","u","s","(","4","0","3",")",".","s","e","n","d","(">>,
      new |-> <<"r","e","p","l","y",".","c","o","d","e","(","4","0","3",")",".","s","e","n","d","(">>],
     \* fix-print-final2.py:84
     [old |-> <<"r","e","p","l","y",".","s","t","a","t","u","s","(","5","0","0",")",".","s","e","n","d","(">>,
      new |-> <<"r","e","p","l","y",".","c","o","d","e","(","5","0","0",")",".","s","e","n","d","(">>],
     \* fix-print-final2.py:89
     [old |-> <<"}"," ","e","l","s","e"," ","i","f"," ","(","t","e","m","p","l","a","t","e","T","y","p","e"," ","=","=","="," ","'","t","h","e","r","m","a","l","'",";"," ","{">>,
      new |-> <<"}"," ","e","l","s","e"," ","i","f"," ","(","t","e","m","p","l","a","t","e","T","y","p","e"," ","=","=","="," ","'","t","h","e","r","m","a","l","'",")"," ","{">>]
  >>

\* The content.replace(old, new) statements of fix-print-backticks.py (lines 8-36), in order.
BackticksReplacements ==
  << \* fix-print-backticks.py:8
     [old |-> <<"i","d","s",".","s","p","l","i","t","(",",","BACKTICK",")",".","m","a","p">>,
      new |-> <<"i","d","s",".","s","p","l","i","t","(","'",",","'",")",".","m","a","p">>],
     \* fix-print-backticks.py:9
     [old |-> <<"p","l","a","c","e","h","o","l","d","e","r","s"," ","="," ","v","o","u","c","h","e","r","I","d","s",".","m","a","p","(","(",")"," ","=",">"," ","'","?","BACKTICK",")",".","j","o","i","n","(",",","BACKTICK",")">>,
      new |-> <<"p","l","a","c","e","h","o","l","d","e","r","s"," ","="," ","v","o","u","c","h","e","r","I","d","s",".","m","a","p","(","(",")"," ","=",">"," ","'","?","'",")",".","j","o","i","n","(","'",",","'",")">>],
     \* fix-print-backticks.py:10
     [old |-> <<"f","s"," ","="," ","r","e","q","u","i","r","e","(","f","s","BACKTICK",")">>,
      new |-> <<"f","s"," ","="," ","r","e","q","u","i","r","e","(","'","f","s","'",")">>],
     \* fix-print-backticks.py:11
     [old |-> <<"p","a","t","h"," ","="," ","r","e","q","u","i","r","e","(","p","a","t","h","BACKTICK",")">>,
      new |-> <<"p","a","t","h"," ","="," ","r","e","q","u","i","r","e","(","'","p","a","t","h","'",")">>],
     \* fix-print-backticks.py:12
     [old |-> <<"t","e","m","p","l","a","t","e","F","i","l","e","P","a","t","h",","," ","u","t","f","8","BACKTICK",")">>,
      new |-> <<"t","e","m","p","l","a","t","e","F","i","l","e","P","a","t","h",","," ","'","u","t","f","8","'">>],
     \* fix-print-backticks.py:13
     [old |-> <<"v","o","u","c","h","e","r",".","v","o","u","c","h","e","r","_","c","o","d","e"," ","|","|"," ","BACKTICK",")">>,
      new |-> <<"v","o","u","c","h","e","r",".","v","o","u","c","h","e","r","_","c","o","d","e"," ","|","|"," ","'","'">>],
     \* fix-print-backticks.py:14
     [old |-> <<"r","e","p","l","y",".","l","o","c","a","l","s",".","s","e","t","t","i","n","g","s"," ","&","&"," ","r","e","p","l","y",".","l","o","c","a","l","s",".","s","e","t","t","i","n","g","s",".","c","o","m","p","a","n","y","_","n","a","m","e",")"," ","|","|"," ","W","i","F","i"," ","H","o","t","s","p","o","t","BACKTICK">>,
      new |-> <<"r","e","p","l","y",".","l","o","c","a","l","s",".","s","e","t","t","i","n","g","s"," ","&","&"," ","r","e","p","l","y",".","l","o","c","a","l","s",".","s","e","t","t","i","n","g","s",".","c","o","m","p","a","n","y","_","n","a","m","e",")"," ","|","|"," ","'","W","i","F","i"," ","H","o","t","s","p","o","t","'">>],
     \* fix-print-backticks.py:15
     [old |-> <<"v","o","u","c","h","e","r",".","v","e","n","d","o","r","_","n","a","m","e"," ","|","|"," ","T","a","n","p","a"," ","V","e","n","d","o","r","BACKTICK">>,
      new |-> <<"v","o","u","c","h","e","r",".","v","e","n","d","o","r","_","n","a","m","e"," ","|","|"," ","'","T","a","n","p","a"," ","V","e","n","d","o","r","'">>],
     \* fix-print-backticks.py:16
     [old |-> <<"n","e","w"," ","D","a","t","e","(","v","o","u","c","h","e","r",".","c","r","e","a","t","e","d","_","a","t",")",".","t","o","L","o","c","a","l","e","D","a","t","e","S","t","r","i","n","g","(","i","d","-","I","D","BACKTICK",")">>,
      new |-> <<"n","e","w"," ","D","a","t","e","(","v","o","u","c","h","e","r",".","c","r","e","a","t","e","d","_","a","t",")",".","t","o","L","o","c","a","l","e","D","a","t","e","S","t","r","i","n","g","(","'","i","d","-","I","D","'",")">>],
     \* fix-print-backticks.py:17
     [old |-> <<"f","o","r","m","a","t","C","u","r","r","e","n","c","y","(","v","o","u","c","h","e","r",".","p","r","i","c","e","_","s","e","l","l",")",".","r","e","p","l","a","c","e","(","R","p",","," ","BACKTICK",")",".","t","r","i","m","(",")">>,
      new |-> <<"f","o","r","m","a","t","C","u","r","r","e","n","c","y","(","v","o","u","c","h","e","r",".","p","r","i","c","e","_","s","e","l","l",")",".","r","e","p","l","a","c","e","(","'","R","p","'",","," ","'","'",")",".","t","r","i","m","(",")">>],
     \* fix-print-backticks.py:18
     [old |-> <<"t","e","m","p","l","a","t","e","N","a","m","e","R","e","s","u","l","t",".","v","a","l","u","e"," ",":"," ","D","e","f","a","u","l","t">>,
      new |-> <<"t","e","m","p","l","a","t","e","N","a","m","e","R","e","s","u","l","t",".","v","a","l","u","e"," ",":"," ","'","D","e","f","a","u","l","t","'">>],
     \* fix-print-backticks.py:19
     [old |-> <<"t","e","m","p","l","a","t","e"," ","=","=","="," ","a","4"," ","?"," ","c","s","s","S","t","y","l","e","s">>,
      new |-> <<"t","e","m","p","l","a","t","e"," ","=","=","="," ","'","a","4","'"," ","?"," ","c","s","s","S","t","y","l","e","s">>],
     \* fix-print-backticks.py:20
     [old |-> <<"t","e","m","p","l","a","t","e","T","y","p","e"," ","=","=","="," ","a","4","BACKTICK",")">>,
      new |-> <<"t","e","m","p","l","a","t","e","T","y","p","e"," ","=","=","="," ","'","a","4","'",")">>],
     \* fix-print-backticks.py:21
     [old |-> <<"t","e","m","p","l","a","t","e","T","y","p","e"," ","=","=","="," ","t","h","e","r","m","a","l","BACKTICK",")">>,
      new |-> <<"t","e","m","p","l","a","t","e","T","y","p","e"," ","=","=","="," ","'","t","h","e","r","m","a","l","'">>],
     \* fix-print-backticks.py:22
     [old |-> <<"a","u","t","o","_","p","r","i","n","t"," ","=","=","="," ","'","t","r","u","e","'">>,
      new |-> <<"a","u","t","o","_","p","r","i","n","t"," ","=","=","="," ","'","t","r","u","e","'">>],
     \* fix-print-backticks.py:23
     [old |-> <<"t","e","m","p","l","a","t","e"," ","="," ","a","4",",">>,
      new |-> <<"t","e","m","p","l","a","t","e"," ","="," ","'","a","4","'",",">>],
     \* fix-print-backticks.py:24
     [old |-> <<"r","e","p","l","y",".","h","e","a","d","e","r","(","'","C","o","n","t","e","n","t","-","T","y","p","e","'",","," ","'","t","e","x","t","/","h","t","m","l","'",")">>,
      new |-> <<"r","e","p","l","y",".","h","e","a","d","e","r","(","'","C","o","n","t","e","n","t","-","T","y","p","e","'",","," ","'","t","e","x","t","/","h","t","m","l","'",")">>],
     \* fix-print-backticks.py:25
     [old |-> <<"m","e","s","s","a","g","e",":"," ","'","I","n","t","e","r","n","a","l"," ","S","e","r","v","e","r"," ","E","r","r","o","r","'">>,
      new |-> <<"m","e","s","s","a","g","e",":"," ","'","I","n","t","e","r","n","a","l"," ","S","e","r","v","e","r"," ","E","r","r","o","r","'">>],
     \* fix-print-backticks.py:26
     [old |-> <<"f","a","s","t","i","f","y",".","g","e","t","(","'","/","b","a","t","c","h","/",":","b","a","t","c","h","I","d","'",",">>,
      new |-> <<"f","a","s","t","i","f","y",".","g","e","t","(","'","/","b","a","t","c","h","/",":","b","a","t","c","h","I","d","'",",">>],
     \* fix-print-backticks.py:27
     [old |-> <<"t","e","m","p","l","a","t","e","N","a","m","e","R","e","s","u","l","t",".","v","a","l","u","e"," ",":"," ","'","D","e","f","a","u","l","t","'">>,
      new |-> <<"t","e","m","p","l","a","t","e","N","a","m","e","R","e","s","u","l","t",".","v","a","l","u","e"," ",":"," ","'","D","e","f","a","u","l","t","'">>],
     \* fix-print-backticks.py:28
     [old |-> <<"m","e","s","s","a","g","e",":"," ","'","F","a","i","l","e","d"," ","t","o"," ","g","e","t"," ","p","r","i","n","t"," ","t","e","m","p","l","a","t","e","s","'">>,
      new |-> <<"m","e","s","s","a","g","e",":"," ","'","F","a","i","l","e","d"," ","t","o"," ","g","e","t"," ","p","r","i","n","t"," ","t","e","m","p","l","a","t","e","s","'">>],
     \* fix-print-backticks.py:29
     [old |-> <<"m","e","s","s","a","g","e",":"," ","'","F","a","i","l","e","d"," ","t","o"," ","p","r","e","v","i","e","w"," ","t","e","m","p","l","a","t","e","'",",">>,
      new |-> <<"m","e","s","s","a","g","e",":"," ","'","F","a","i","l","e","d"," ","t","o"," ","p","r","e","v","i","e","w"," ","t","e","m","p","l","a","t","e","'",",">>],
     \* fix-print-backticks.py:30
     [old |-> <<"f","a","s","t","i","f","y",".","g","e","t","(","'","/","m","a","n","a","g","e","'",",">>,
      new |-> <<"f","a","s","t","i","f","y",".","g","e","t","(","'","/","m","a","n","a","g","e","'",",">>],
     \* fix-print-backticks.py:31
     [old |-> <<"r","e","p","l","y",".","v","i","e","w","(","'","p","r","i","n","t","/","m","a","n","a","g","e","'">>,
      new |-> <<"r","e","p","l","y",".","v","i","e","w","(","'","p","r","i","n","t","/","m","a","n","a","g","e","'">>],
     \* fix-print-backticks.py:32
     [old |-> <<"m","e","s","s","a","g","e",":"," ","'","F","i","l","e"," ","n","o","t"," ","a","l","l","o","w","e","d","'">>,
      new |-> <<"m","e","s","s","a","g","e",":"," ","'","F","i","l","e"," ","n","o","t"," ","a","l","l","o","w","e","d","'">>],
     \* fix-print-backticks.py:33
     [old |-> <<"m","e","s","s","a","g","e",":"," ","'","F","i","l","e"," ","n","o","t"," ","f","o","u","n","d","'">>,
      new |-> <<"m","e","s","s","a","g","e",":"," ","'","F","i","l","e"," ","n","o","t"," ","f","o","u","n","d","'">>],
     \* fix-print-backticks.py:34
     [old |-> <<"a","l","l","o","w","e","d","F","i","l","e","s"," ","="," ","[","'","t","e","m","p","l","a","t","e","_","a","4",".","h","t","m","l","'",","," ","'","t","e","m","p","l","a","t","e","_","t","h","e","r","m","a","l",".","h","t","m","l","'","]">>,
      new |-> <<"a","l","l","o","w","e","d","F","i","l","e","s"," ","="," ","[","'","t","e","m","p","l","a","t","e","_","a","4",".","h","t","m","l","'",","," ","'","t","e","m","p","l","a","t","e","_","t","h","e","r","m","a","l",".","h","t","m","l","'","]">>],
     \* fix-print-backticks.py:35
     [old |-> <<".","r","e","a","d","F","i","l","e","S","y","n","c","(","f","i","l","e","P","a","t","h",","," ","'","u","t","f","8","'",")">>,
      new |-> <<".","r","e","a","d","F","i","l","e","S","y","n","c","(","f","i","l","e","P","a","t","h",","," ","'","u","t","f","8","'",")">>],
     \* fix-print-backticks.py:36
     [old |-> <<"p","r","i","n","t","M","o","d","e",":"," ","'","'">>,
      new |-> <<"p","r","i","n","t","M","o","d","e",":"," ","'","'">>]
  >>

\* The single replace of fix-line28.py (line 9).
Line28Replacements ==
  << \* fix-line28.py:9
     [old |-> <<"i","d","s",".","s","p","l","i","t","(",",","BACKTICK",")",".","m","a","p">>,
      new |-> <<"i","d","s",".","s","p","l","i","t","(","'",",","'",")",".","m","a","p">>]
  >>

----------------------------------------------------------------------------
(* str.replace, the fold over a table, and the text layer of open().        *)

\* old occurs in t at position i (1-based).
MatchAt(t, old, i) ==
  /\ i + Len(old) - 1 <= Len(t)
  /\ \A k \in 1..Len(old) : t[i + k - 1] = old[k]

\* The pieces ps[lo..hi] written one after another.
RECURSIVE FlatRange(_, _, _)
FlatRange(ps, lo, hi) ==
  IF lo > hi THEN <<>>
  ELSE IF lo = hi THEN ps[lo]
  ELSE LET mid == (lo + hi) \div 2
       IN  FlatRange(ps, lo, mid) \o FlatRange(ps, mid + 1, hi)

Flatten(ps) == FlatRange(ps, 1, Len(ps))

\* The first position at or after i where old occurs in t, 0 if there is none.
NextMatch(t, old, i) ==
  LET M == {j \in i..Len(t) : MatchAt(t, old, j)}
  IN  IF M = {} THEN 0 ELSE CHOOSE j \in M : \A k \in M : j <= k

\* The left-to-right scan of str.replace from position i: the text up to the
\* next match is copied, the match is replaced, and the scan resumes after
\* the match (the inserted text is not rescanned).
RECURSIVE ReplaceFrom(_, _, _, _)
ReplaceFrom(t, old, new, i) ==
  LET j == NextMatch(t, old, i)
  IN  IF j = 0 THEN SubSeq(t, i, Len(t))
      ELSE SubSeq(t, i, j - 1) \o new \o ReplaceFrom(t, old, new, j + Len(old))

\* A faulty variant: t.replace(old, new, 1) -- only the first occurrence is replaced.
Replace_First(t, old, new) ==
  LET j == NextMatch(t, old, 1)
  IN  IF old = <<>> THEN new \o t
      ELSE IF j = 0 THEN t
      ELSE SubSeq(t, 1, j - 1) \o new \o SubSeq(t, j + Len(old), Len(t))

\* A faulty variant: the text a pass inserted is scanned once more.
Replace_Rescans(t, old, new) ==
  IF old = <<>>
  THEN Flatten([i \in 1..Len(t) |-> new \o <<t[i]>>]) \o new
  ELSE ReplaceFrom(ReplaceFrom(t, old, new, 1), old, new, 1)

\* t.replace(old, new): every non-overlapping occurrence of old, leftmost
\* first; an empty old matches before every character and at the end.
Replace(t, old, new) ==
  IF old = <<>>
  THEN Flatten([i \in 1..Len(t) |-> new \o <<t[i]>>]) \o new
  ELSE ReplaceFrom(t, old, new, 1)

\* Index 28 of fix-line28.py (line 29 of the file).
LineIndex == 28

\* if len(lines) > 28: lines[28] = lines[28].replace(old, new)
FixLine(rules, lines) ==
  IF Len(lines) > LineIndex
  THEN [lines EXCEPT ![LineIndex + 1] =
          Replace(lines[LineIndex + 1], rules[1].old, rules[1].new)]
  ELSE lines

\* open(path, 'r') decodes with universal newlines: "\r\n" and a lone "\r"
\* are both read as "\n".
Decode(b) ==
  Flatten([i \in 1..Len(b) |->
             IF b[i] = CR THEN <<LF>>
             ELSE IF b[i] = LF /\ i > 1 /\ b[i - 1] = CR THEN <<>>
             ELSE <<b[i]>>])

\* The bytes decode as text under the assumed encoding.
Decodable(b) == \A i \in 1..Len(b) : b[i] # BadByte

\* open(path, 'w') encodes every "\n" written as os.linesep.
Encode(t, sep) ==
  Flatten([i \in 1..Len(t) |-> IF t[i] = LF THEN sep ELSE <<t[i]>>])

\* f.readlines(): the text cut after every "\n"; a last line may lack one.
ReadLines(t) ==
  LET Ends == {i \in 1..Len(t) : t[i] = LF \/ i = Len(t)}
      End(j) == CHOOSE e \in Ends : Cardinality({x \in Ends : x <= e}) = j
  IN  [j \in 1..Cardinality(Ends) |->
         SubSeq(t, IF j = 1 THEN 1 ELSE End(j - 1) + 1, End(j))]

\* f.writelines(lines): the lines written one after another, nothing added.
JoinLines(lines) == Flatten(lines)

\* A write(2) of bytes b at offset 0 of a file holding data: the first
\* Len(b) bytes are overwritten, whatever lies beyond them stays.
WriteAt0(data, b) ==
  IF Len(b) >= Len(data) THEN b
  ELSE b \o SubSeq(data, Len(b) + 1, Len(data))

----------------------------------------------------------------------------
(* The scripts: a granularity and a rule table each.                        *)

\* A script is named by its file; "engine" is the same read-apply-write
\* sequence run with a table the caller supplies.
PythonScript    == [mode |-> "whole", table |-> "fix-print-python", rules |-> <<>>]
Final2Script    == [mode |-> "whole", table |-> "fix-print-final2", rules |-> <<>>]
BackticksScript == [mode |-> "whole", table |-> "fix-print-backticks", rules |-> <<>>]
Line28Script    == [mode |-> "line", table |-> "fix-line28", rules |-> <<>>]
WholeText(r)    == [mode |-> "whole", table |-> "engine", rules |-> r]

\* The rule table script s applies.
RulesOf(s) ==
  CASE s.table = "fix-print-python" -> replacements
    [] s.table = "fix-print-final2" -> Final2Replacements
    [] s.table = "fix-print-backticks" -> BackticksReplacements
    [] s.table = "fix-line28" -> Line28Replacements
    [] OTHER -> s.rules

----------------------------------------------------------------------------
(* State.                                                                   *)

\* Two invocations, each a process of its own, share the Target.
Calls == {1, 2}

VARIABLES
  file,     \* the Target on disk: [exists, data], data its bytes
  perm,     \* the caller's access to the Target: [r, w]
  linesep,  \* os.linesep of the platform
  pc,       \* where each call stands
  script,   \* the script each call runs
  content,  \* each call's in-memory Document (content, or lines)
  loaded,   \* history: the Document as each call read it
  msgs,     \* the status lines printed, as the calls that printed them
  hist,     \* history: the file operations completed, in order
  orig,     \* history: the Target as it was before any call
  step      \* the rule (or statement) each call applies next, from 1

vars == <<file, perm, linesep, pc, script, content, loaded, msgs, hist, orig, step>>

Absent == [exists |-> FALSE, data |-> <<>>]
OnDisk(d) == [exists |-> TRUE, data |-> d]

Terminal == {"done", "failed_read", "failed_write", "idle"}

\* What a call hands to the file on write: f.write(content) or
\* f.writelines(lines), encoded.
Bytes(c) ==
  Encode(IF script[c].mode = "line" THEN JoinLines(content[c]) ELSE content[c],
         linesep)

\* The strict prefixes of b.
Prefixes(b) == {SubSeq(b, 1, n) : n \in 0..(Len(b) - 1)}

----------------------------------------------------------------------------
(* The steps of one call.                                                   *)

\* with open(sys.argv[1], 'r') as f:  -- the path exists and is readable.
OpenForRead(c) ==
  /\ pc[c] = "start"
  /\ file.exists /\ perm.r
  /\ pc' = [pc EXCEPT ![c] = "rd_open"]
  /\ UNCHANGED <<file, perm, linesep, script, content, loaded, msgs, hist, orig, step>>

\* A faulty variant: the read phase opened in a mode that creates a missing file
\* ('a+'), so a failed read leaves an empty file behind.
OpenForReadFails_Creates(c) ==
  /\ pc[c] = "start"
  /\ ~(file.exists /\ perm.r)
  /\ file' = IF file.exists THEN file ELSE OnDisk(<<>>)
  /\ pc' = [pc EXCEPT ![c] = "failed_read"]
  /\ UNCHANGED <<perm, linesep, script, content, loaded, msgs, hist, orig, step>>

\* open(..., 'r') raises (FileNotFoundError, PermissionError): the script
\* ends there.
OpenForReadFails(c) ==
  /\ pc[c] = "start"
  /\ ~(file.exists /\ perm.r)
  /\ pc' = [pc EXCEPT ![c] = "failed_read"]
  /\ UNCHANGED <<file, perm, linesep, script, content, loaded, msgs, hist, orig, step>>

\* The Document a call obtains from bytes b: f.read() or f.readlines().
Load(c, b) ==
  IF script[c].mode = "line" THEN ReadLines(Decode(b)) ELSE Decode(b)

\* content = f.read()  /  lines = f.readlines()
ReadAll(c) ==
  /\ pc[c] = "rd_open"
  /\ Decodable(file.data)
  /\ content' = [content EXCEPT ![c] = Load(c, file.data)]
  /\ loaded' = [loaded EXCEPT ![c] = Load(c, file.data)]
  /\ hist' = Append(hist, <<c, "read">>)
  /\ pc' = [pc EXCEPT ![c] = "loaded"]
  /\ UNCHANGED <<file, perm, linesep, script, msgs, orig, step>>

\* f.read() raises UnicodeDecodeError.
ReadFails(c) ==
  /\ pc[c] = "rd_open"
  /\ ~Decodable(file.data)
  /\ pc' = [pc EXCEPT ![c] = "failed_read"]
  /\ UNCHANGED <<file, perm, linesep, script, content, loaded, msgs, hist, orig, step>>

\* The substitutions a script makes, one per step: every rule of its table
\* in whole-text mode, the one conditional statement in line mode.
NSteps(s) == IF s.mode = "line" THEN 1 ELSE Len(RulesOf(s))

\* content = content.replace(old, new) with rule i of the table (an
\* iteration of the for loop, or the i-th statement), or the line fix.
ApplyStep(s, doc, i) ==
  IF s.mode = "line" THEN FixLine(RulesOf(s), doc)
  ELSE Replace(doc, RulesOf(s)[i].old, RulesOf(s)[i].new)

\* One substitution, on the in-memory Document only: it reads the text the
\* substitutions before it left.
ApplyReplacement(c) ==
  /\ pc[c] = "loaded"
  /\ step[c] <= NSteps(script[c])
  /\ content' = [content EXCEPT ![c] = ApplyStep(script[c], content[c], step[c])]
  /\ step' = [step EXCEPT ![c] = step[c] + 1]
  /\ UNCHANGED <<file, perm, linesep, pc, script, loaded, msgs, hist, orig>>

\* Every substitution of the script is done.
Fixed(c) == pc[c] = "loaded" /\ step[c] > NSteps(script[c])

\* A faulty variant: the write phase opened without truncation ('r+').
Truncated_Keeps(f) == f

\* The Target right after open(path, 'w') succeeded: created if missing,
\* truncated to nothing if present.
Truncated(f) == OnDisk(<<>>)

\* with open(sys.argv[1], 'w') as f:
OpenForWrite(c) ==
  /\ Fixed(c)
  /\ perm.w
  /\ file' = Truncated(file)
  /\ hist' = Append(hist, <<c, "openw">>)
  /\ pc' = [pc EXCEPT ![c] = "wr_open"]
  /\ UNCHANGED <<perm, linesep, script, content, loaded, msgs, orig, step>>

\* open(..., 'w') raises PermissionError: nothing is written.
OpenForWriteFails(c) ==
  /\ Fixed(c)
  /\ ~perm.w
  /\ pc' = [pc EXCEPT ![c] = "failed_write"]
  /\ UNCHANGED <<file, perm, linesep, script, content, loaded, msgs, hist, orig, step>>

\* f.write(content) / f.writelines(lines), flushed when the with block
\* closes f: the bytes go to offset 0 of the file as it is then.
WriteBack(c) ==
  /\ pc[c] = "wr_open"
  /\ file' = OnDisk(WriteAt0(file.data, Bytes(c)))
  /\ hist' = Append(hist, <<c, "write">>)
  /\ pc' = [pc EXCEPT ![c] = "written"]
  /\ UNCHANGED <<perm, linesep, script, content, loaded, msgs, orig, step>>

\* The write or the flush raises OSError (disk full, I/O error) after some
\* strict prefix of the bytes reached the file.
WriteFails(c) ==
  /\ pc[c] = "wr_open"
  /\ \E p \in Prefixes(Bytes(c)) \cup {<<>>} :
       file' = OnDisk(WriteAt0(file.data, p))
  /\ pc' = [pc EXCEPT ![c] = "failed_write"]
  /\ UNCHANGED <<perm, linesep, script, content, loaded, msgs, hist, orig, step>>

\* A faulty variant: the status line is printed although the write raised (the error
\* swallowed by a try/except).
MayPrint_AfterFailure(c) == pc[c] \in {"written", "failed_write"}

\* The call may print its status line.
MayPrint(c) == pc[c] = "written"

\* print("Fixed ...", sys.argv[1]) -- the last statement of every script.
PrintStatus(c) ==
  /\ MayPrint(c)
  /\ msgs' = Append(msgs, c)
  /\ pc' = [pc EXCEPT ![c] = "done"]
  /\ UNCHANGED <<file, perm, linesep, script, content, loaded, hist, orig, step>>

\* Any step of call c.
Step(c) ==
  \/ OpenForRead(c)
  \/ OpenForReadFails(c)
  \/ ReadAll(c)
  \/ ReadFails(c)
  \/ ApplyReplacement(c)
  \/ OpenForWrite(c)
  \/ OpenForWriteFails(c)
  \/ WriteBack(c)
  \/ WriteFails(c)
  \/ PrintStatus(c)

----------------------------------------------------------------------------
(* Spec: two calls on one Target, run as two processes the scheduler        *)
(* interleaves freely, with every failure of the read and write phases.     *)

A == "a"
B == "b"
C == "c"
X == "x"
Y == "y"

\* The tables of the specification's examples, run by the engine.
ChainTable == << [old |-> <<A>>, new |-> <<B>>], [old |-> <<B>>, new |-> <<C>>] >>
GrowTable == << [old |-> <<X>>, new |-> <<X, Y>>] >>

SysScripts == {WholeText(ChainTable), WholeText(GrowTable), Line28Script}

SysDocs == { <<A>>, <<X, A>>, <<A, CR, LF, X>>, <<X, BadByte>> }

Perms == { [r |-> TRUE, w |-> TRUE], [r |-> TRUE, w |-> FALSE],
           [r |-> FALSE, w |-> FALSE] }

LineSeps == { <<LF>>, <<CR, LF>> }

Init ==
  /\ file \in {Absent} \cup {OnDisk(d) : d \in SysDocs}
  /\ perm \in Perms
  /\ linesep \in LineSeps
  /\ script \in [Calls -> SysScripts]
  /\ pc = [c \in Calls |-> "start"]
  /\ content = [c \in Calls |-> <<>>]
  /\ loaded = [c \in Calls |-> <<>>]
  /\ msgs = <<>>
  /\ hist = <<>>
  /\ orig = file
  /\ step = [c \in Calls |-> 1]

Next == \E c \in Calls : Step(c)

Spec == Init /\ [][Next]_vars

\* Each call is a sequential program the operating system keeps running.
FairSpec == Spec /\ \A c \in Calls : WF_vars(Step(c))

----------------------------------------------------------------------------
(* SpecSeq: one caller running two calls strictly one after the other on    *)
(* an existing, readable and writable Target, with no failure.  The inputs: *)
(* every short Document with every short rule table and with the example    *)
(* tables (the second call runs the same table again), the shipped tables   *)
(* on Documents around the print/manage call, and fix-line28.py on          *)
(* Documents of about 29 lines.                                             *)

MaxFind == 1    \* longest find literal of a generated rule
MaxNew == 1     \* longest replace literal of a generated rule
MaxRules == 1   \* most rules of a generated table
MaxDoc == 3     \* longest generated Document
MaxFrags == 3   \* most fragments of a Document for the shipped tables
MaxExtra == 1   \* most lines beyond line index 28 of a line Document

\* Every sequence over S of length at most n.
Strs(S, n) == UNION {[1..k -> S] : k \in 0..n}

GenRules == [old : Strs({A, B}, MaxFind), new : Strs({A, B}, MaxNew)]

GenTables == Strs(GenRules, MaxRules)

NewlineDocs == { <<A, LF, B>>, <<A, CR, LF, B>>, <<B, CR, A, LF>> }

GenDocs == Strs({A, B}, MaxDoc) \cup NewlineDocs

\* The tables of the examples of the specification, and two tables of two
\* rules: one whose second rule writes the find of its first, one whose
\* replace literals share no character with a find.
EarlierFindTable == << [old |-> <<A>>, new |-> <<>>], [old |-> <<B>>, new |-> <<A>>] >>
DisjointTable == << [old |-> <<A>>, new |-> <<X>>], [old |-> <<B>>, new |-> <<Y, Y>>] >>

ExampleTables == {ChainTable, GrowTable, EarlierFindTable, DisjointTable}

ExampleDocs == GenDocs \cup { <<X>>, <<X, A>>, <<X, X>> }

\* reply.view('print/manage'  -- the find literal of fix-print-python.py:52.
ReplyView == replacements[43].old

Quote == "'"
Comma == ","

Frags == { ReplyView, <<Quote>>, <<Comma>>, <<" ">> }

ShippedDocs == {JoinLines(fs) : fs \in Strs(Frags, MaxFrags)}

ShippedScripts == {PythonScript, Final2Script, BackticksScript}

\* ids.split(,`).map  -- the find literal of fix-line28.py:9.
SplitMap == Line28Replacements[1].old

Filler == <<X, LF>>

\* A Document of n lines: its first, its line at index 28 and its last as
\* given, every other line a filler.
LineDoc(n, first, target, last) ==
  JoinLines([i \in 1..n |->
               IF i = 1 THEN first
               ELSE IF i = LineIndex + 1 THEN target
               ELSE IF i = n THEN last
               ELSE Filler])

LineDocs ==
  { LineDoc(n, first, target, last) :
      n \in LineIndex..(LineIndex + 1 + MaxExtra),
      first \in {Filler, SplitMap \o <<LF>>, <<X, CR, LF>>},
      target \in {Filler, SplitMap \o <<LF>>, <<X>> \o SplitMap \o SplitMap \o <<LF>>},
      last \in {Filler, SplitMap} }

\* (Document, script of call 1, script of call 2).
Scenarios ==
  {<<d, WholeText(r), WholeText(r)>> : d \in GenDocs, r \in GenTables}
    \cup {<<d, WholeText(r), WholeText(r)>> : d \in ExampleDocs, r \in ExampleTables}
    \cup {<<d, s, t>> : d \in ShippedDocs, s \in ShippedScripts, t \in ShippedScripts}
    \cup {<<d, Line28Script, Line28Script>> : d \in LineDocs}

InitSeq ==
  /\ \E sc \in Scenarios :
       /\ file = OnDisk(sc[1])
       /\ script = <<sc[2], sc[3]>>
  /\ perm = [r |-> TRUE, w |-> TRUE]
  /\ linesep \in LineSeps
  /\ pc = [c \in Calls |-> "start"]
  /\ content = [c \in Calls |-> <<>>]
  /\ loaded = [c \in Calls |-> <<>>]
  /\ msgs = <<>>
  /\ hist = <<>>
  /\ orig = file
  /\ step = [c \in Calls |-> 1]

\* The caller starts a call when every earlier one has ended.
Turn(c) == \A d \in Calls : d < c => pc[d] \in Terminal

NextSeq ==
  \E c \in Calls :
    \/ Turn(c) /\ OpenForRead(c)
    \/ Turn(c) /\ ReadAll(c)
    \/ Turn(c) /\ ApplyReplacement(c)
    \/ Turn(c) /\ OpenForWrite(c)
    \/ Turn(c) /\ WriteBack(c)
    \/ Turn(c) /\ PrintStatus(c)

SpecSeq == InitSeq /\ [][NextSeq]_vars

----------------------------------------------------------------------------
(* What the specification says a rule and a table do, stated without the    *)
(* scan of str.replace.                                                     *)

\* find lies in t at position i.
OccursAt(t, find, i) ==
  /\ i >= 1 /\ i + Len(find) - 1 <= Len(t)
  /\ SubSeq(t, i, i + Len(find) - 1) = find

\* find is a substring of t.
Contains(t, find) == \E i \in 1..(Len(t) + 1) : OccursAt(t, find, i)

\* The occurrences a rule rewrites: an occurrence that does not overlap an
\* earlier rewritten one.
Rewritten(t, find) ==
  LET taken[i \in 1..Len(t)] ==
        /\ OccursAt(t, find, i)
        /\ \A j \in 1..(i - 1) : j + Len(find) > i => ~taken[j]
  IN  {i \in 1..Len(t) : taken[i]}

\* apply(r, t): every rewritten occurrence of find gives way to repl, every
\* other character stays.  The occurrences of an empty find are the places
\* before each character and the end of the text.
EveryOccurrence(t, find, repl) ==
  IF find = <<>>
  THEN Flatten([i \in 1..Len(t) |-> repl \o <<t[i]>>]) \o repl
  ELSE LET R == Rewritten(t, find)
       IN  Flatten([i \in 1..Len(t) |->
                      IF i \in R THEN repl
                      ELSE IF \E j \in R : j < i /\ i < j + Len(find) THEN <<>>
                      ELSE <<t[i]>>])

\* apply(rn, ... apply(r2, apply(r1, t))).
RECURSIVE LeftFold(_, _)
LeftFold(rules, t) ==
  IF rules = <<>> THEN t
  ELSE LET n == Len(rules)
       IN  EveryOccurrence(LeftFold(SubSeq(rules, 1, n - 1), t),
                           rules[n].old, rules[n].new)

\* The bytes a complete run of script s leaves of a Target holding bytes b.
RepairedBytes(s, b) ==
  IF s.mode = "line"
  THEN LET lines == ReadLines(Decode(b))
       IN  Encode(JoinLines(
             [i \in 1..Len(lines) |->
                IF i = LineIndex + 1
                THEN EveryOccurrence(lines[i], RulesOf(s)[1].old, RulesOf(s)[1].new)
                ELSE lines[i]]), linesep)
  ELSE Encode(LeftFold(RulesOf(s), Decode(b)), linesep)


----------------------------------------------------------------------------
(* Reading the history.                                                     *)

Range(s) == {s[i] : i \in DOMAIN s}

\* The place of call c's operation op in the history, 0 if it has not
\* happened.
Pos(c, op) ==
  IF <<c, op>> \in Range(hist)
  THEN CHOOSE i \in DOMAIN hist : hist[i] = <<c, op>>
  ELSE 0

\* How often call c's operation op is in the history.
Times(c, op) == Cardinality({i \in DOMAIN hist : hist[i] = <<c, op>>})

Wrote(c) == pc[c] \in {"written", "done"}

Other(c) == CHOOSE d \in Calls : d # c

----------------------------------------------------------------------------
(* C2.  No partial-success state: with one call at work, the Target holds   *)
(* at every moment either the complete pre-repair content or the complete   *)
(* repaired content, never an empty, truncated or half-written one.         *)
(* The code opens the Target with mode 'w', which truncates it before a     *)
(* single byte of the repaired text is written: the statement fails.        *)

\* The bytes a complete repair by call c of the original Target leaves.
FullyRepaired(c) == RepairedBytes(script[c], orig.data)

C2_NoPartialSuccess ==
  \A c \in Calls :
    (pc[Other(c)] = "start" /\ orig.exists /\ Decodable(orig.data))
      => file.data \in {orig.data, FullyRepaired(c)}

----------------------------------------------------------------------------
(* C3.  A call whose read phase failed (missing or unreadable path,         *)
(* undecodable bytes) never entered its write phase: it has opened nothing  *)
(* for writing and written nothing, and as long as no other call has opened *)
(* the Target for writing the Target is what it was: still missing if it    *)
(* was missing, its content unchanged if it existed.                        *)

C3_ReadFailureWritesNothing ==
  \A c \in Calls :
    pc[c] = "failed_read" =>
      /\ Times(c, "openw") = 0 /\ Times(c, "write") = 0
      /\ (\A d \in Calls : Times(d, "openw") = 0) => file = orig

C3_Witness ==
  \E c \in Calls : pc[c] = "failed_read" /\ ~orig.exists /\ ~file.exists

----------------------------------------------------------------------------
(* C8.  A call is one pass without retries that ends as a success or as a   *)
(* failure: under fair scheduling every call reaches "done" or a failure;   *)
(* each file operation happens at most once per call; the status line is    *)
(* printed at most once, only by a call whose write completed, never by a   *)
(* failed call; and a call that is done or has failed takes no further      *)
(* step.                                                                    *)

Ended(c) == pc[c] \in {"done", "failed_read", "failed_write"}

C8_MessageOnlyAfterWrite ==
  \A c \in Calls :
    /\ Cardinality({i \in DOMAIN msgs : msgs[i] = c}) <= 1
    /\ c \in Range(msgs) <=> pc[c] = "done"
    /\ c \in Range(msgs) => Times(c, "write") = 1
    /\ pc[c] \in {"failed_read", "failed_write"} => c \notin Range(msgs)
    /\ \A op \in {"read", "openw", "write"} : Times(c, op) <= 1

C8_EndedIsFinal ==
  \A c \in Calls :
    Ended(c) =>
      /\ pc'[c] = pc[c]
      /\ content'[c] = content[c]
      /\ step'[c] = step[c]
      /\ (\A d \in Calls \ {c} : pc'[d] = pc[d] /\ step'[d] = step[d])
           => UNCHANGED vars

C8_SinglePassTerminates ==
  /\ <>(\A c \in Calls : Ended(c))
  /\ []C8_MessageOnlyAfterWrite
  /\ [][C8_EndedIsFinal]_vars

C8_Witness ==
  \E c \in Calls :
    /\ pc[c] = "done" /\ msgs = <<c>>
    /\ pc[Other(c)] = "failed_write"

----------------------------------------------------------------------------
(* C9.  No lock, no conflict detection.  Original statement: when both      *)
(* calls read the Target before either opened it for writing and both       *)
(* wrote, the Target ends as exactly the repaired text of the call that     *)
(* wrote last.                                                              *)

BothReadFirst ==
  \A c \in Calls : \A d \in Calls :
    /\ Pos(c, "read") > 0
    /\ Pos(d, "openw") > 0 => Pos(c, "read") < Pos(d, "openw")

LastWriter == CHOOSE c \in Calls : \A d \in Calls : Pos(d, "write") <= Pos(c, "write")

IsPrefix(p, s) == Len(p) <= Len(s) /\ SubSeq(s, 1, Len(p)) = p

Max(m, n) == IF m >= n THEN m ELSE n

\* d's bytes when d runs after c's complete repair of the original Target.
Composed(c, d) == RepairedBytes(script[d], FullyRepaired(c))

----------------------------------------------------------------------------
(* Helpers of the claims on sequential runs.                                *)

Chars(t) == {t[i] : i \in 1..Len(t)}

\* The call runs the engine with a caller's table.
Engine(c) == script[c].table = "engine"

\* Call c's write is the latest change of the Target.
LatestWrite(c) ==
  /\ Wrote(c)
  /\ \A d \in Calls : Pos(d, "openw") <= Pos(c, "write")

\* What was on disk when call c read it.
ReadFrom(c) == IF c = 1 THEN orig.data ELSE Bytes(1)

----------------------------------------------------------------------------
(* C1.  Whole-text repair is a left fold over the table: the text a call    *)
(* writes back is apply(rn, ... apply(r1, D)) of the Document D it loaded   *)
(* (the Target's bytes decoded as text), every occurrence of each find      *)
(* replaced and each rule reading the output of the rule before it, and     *)
(* those are the bytes the Target holds after the write.  The table         *)
(* [(a -> b), (b -> c)] turns "a" into "c".                                 *)

C1_LeftFold ==
  \A c \in Calls :
    (Wrote(c) /\ Engine(c)) =>
      /\ loaded[c] = Decode(ReadFrom(c))
      /\ content[c] = LeftFold(script[c].rules, loaded[c])
      /\ LatestWrite(c) =>
           file.data = Encode(LeftFold(script[c].rules, loaded[c]), linesep)
      /\ (script[c].rules = ChainTable /\ loaded[c] = <<A>>) => content[c] = <<C>>

C1_Witness ==
  /\ pc[1] = "done" /\ pc[2] = "start"
  /\ script[1] = WholeText(ChainTable)
  /\ orig.data = <<A>>
  /\ file.data = <<C>>

----------------------------------------------------------------------------
(* C4.  Original statement: when no rule's replace literal contains the     *)
(* find literal of the same or of a later rule, a second run of the table   *)
(* leaves the repaired Target as the first run left it.                     *)

NoNewHoldsLaterFind(rules) ==
  \A i \in 1..Len(rules) : \A j \in i..Len(rules) :
    ~Contains(rules[i].new, rules[j].old)

SameTableTwice == Engine(1) /\ script[2] = script[1]

C4_ConditionalIdempotence ==
  (Wrote(2) /\ SameTableTwice /\ NoNewHoldsLaterFind(script[1].rules))
    => file.data = Bytes(1)

(* C4 as amended.  When every find and every replace literal of the table   *)
(* is non-empty and no replace literal has a character in common with any   *)
(* find literal of the table (of an earlier, the same or a later rule),     *)
(* applying the table to the already-repaired text changes nothing.         *)

NoSharedCharacter(rules) ==
  /\ \A i \in 1..Len(rules) : rules[i].old # <<>> /\ rules[i].new # <<>>
  /\ \A i \in 1..Len(rules) : \A j \in 1..Len(rules) :
       Chars(rules[i].new) \cap Chars(rules[j].old) = {}

C4_IdempotentWhenDisjoint ==
  (Wrote(2) /\ SameTableTwice /\ NoSharedCharacter(script[1].rules))
    => /\ loaded[2] = content[1]
       /\ content[2] = content[1]
       /\ file.data = Bytes(1)

C4_Witness ==
  /\ pc[2] = "done" /\ SameTableTwice
  /\ NoSharedCharacter(script[1].rules)
  /\ Len(script[1].rules) = 2
  /\ content[1] # loaded[1]
  /\ content[2] = content[1]

----------------------------------------------------------------------------
(* C5.  A rule whose replace literal contains its find literal rewrites     *)
(* each occurrence of find exactly once per run (the inserted text is not   *)
(* scanned again in that run) and again on every further run.  With         *)
(* [(x -> xy)], "x" is "xy" after one run and "xyy" after two.  The table   *)
(* of fix-print-python.py has such a rule, reply.view('print/manage' ->     *)
(* reply.view('print/manage', : every run after the first puts one more     *)
(* comma behind every occurrence.                                           *)

\* How many copies of ch follow position e of t.
RunAfter(t, e, ch) ==
  CHOOSE k \in 0..(Len(t) - e) :
    /\ \A m \in 1..k : t[e + m] = ch
    /\ e + k + 1 > Len(t) \/ t[e + k + 1] # ch

\* The end positions of the occurrences of reply.view('print/manage' in t.
ViewEnds(t) == {i + Len(ReplyView) - 1 : i \in {j \in 1..Len(t) : OccursAt(t, ReplyView, j)}}

\* The number of commas behind each occurrence, in text order.
CommasBehind(t) ==
  LET E == ViewEnds(t)
      Nth(j) == CHOOSE e \in E : Cardinality({x \in E : x <= e}) = j
  IN  [j \in 1..Cardinality(E) |-> RunAfter(t, Nth(j), Comma)]

SelfContaining(rules) ==
  /\ Len(rules) = 1
  /\ rules[1].old # <<>>
  /\ Contains(rules[1].new, rules[1].old)

C5_GrowsOnEveryRun ==
  /\ \A c \in Calls :
       (Wrote(c) /\ Engine(c) /\ SelfContaining(script[c].rules)) =>
         LET r == script[c].rules[1]
             n == Cardinality(Rewritten(loaded[c], r.old))
         IN  /\ content[c] = EveryOccurrence(loaded[c], r.old, r.new)
             /\ Len(content[c]) = Len(loaded[c]) + n * (Len(r.new) - Len(r.old))
             /\ Cardinality(Rewritten(content[c], r.old)) >= n
  /\ (Engine(1) /\ script[1].rules = GrowTable /\ orig.data = <<X>>) =>
       /\ Wrote(1) => content[1] = <<X, Y>>
       /\ (Wrote(2) /\ script[2] = script[1]) =>
            content[2] = <<X, Y, Y>> /\ file.data = <<X, Y, Y>>
  /\ (Wrote(2) /\ script[1] = PythonScript /\ script[2] = PythonScript) =>
       /\ Len(CommasBehind(content[2])) = Len(CommasBehind(content[1]))
       /\ \A j \in 1..Len(CommasBehind(content[1])) :
            /\ CommasBehind(content[1])[j] >= 1
            /\ CommasBehind(content[2])[j] = CommasBehind(content[1])[j] + 1

C5_Witness ==
  /\ pc[2] = "done"
  /\ script[1] = PythonScript /\ script[2] = PythonScript
  /\ orig.data = ReplyView \o <<" ">> \o ReplyView
  /\ CommasBehind(content[1]) = <<1, 1>>
  /\ CommasBehind(file.data) = <<2, 2>>

----------------------------------------------------------------------------
(* C6.  No-op safety: when no find literal of the table occurs in the       *)
(* Document, the repair succeeds and the Target holds after it exactly what *)
(* it held before.  Reading in text mode turns "\r\n" and "\r" into "\n"    *)
(* and writing turns "\n" into os.linesep, so a Target with other line      *)
(* endings than the platform's comes back changed: the statement fails.     *)

NoFindOccurs(c) ==
  \A i \in 1..Len(RulesOf(script[c])) :
    /\ ~Contains(orig.data, RulesOf(script[c])[i].old)
    /\ ~Contains(Decode(orig.data), RulesOf(script[c])[i].old)

C6_NoOpSafety ==
  (Wrote(1) /\ pc[2] = "start" /\ NoFindOccurs(1)) => file.data = orig.data

----------------------------------------------------------------------------
(* C7.  Line-indexed isolation: fix-line28.py writes back as many lines as  *)
(* the Target had, every line at an index other than 28 as it was (also     *)
(* one that contains the find literal), and a Target of 28 or fewer lines   *)
(* unchanged.  The lines pass through the same text layer as in C6, which   *)
(* rewrites their line endings: the statement fails.                        *)

C7_LineIsolation ==
  (Wrote(1) /\ pc[2] = "start" /\ script[1] = Line28Script) =>
    LET before == ReadLines(orig.data)
        after == ReadLines(file.data)
    IN  /\ Len(after) = Len(before)
        /\ \A i \in 1..Len(before) : i # LineIndex + 1 => after[i] = before[i]
        /\ Len(before) <= LineIndex => file.data = orig.data

\* What does hold: the lines in memory other than the one at index 28 are
\* the lines that were read.
LinesIsolatedInMemory ==
  \A c \in Calls :
    (Wrote(c) /\ script[c] = Line28Script) =>
      /\ Len(content[c]) = Len(loaded[c])
      /\ \A i \in 1..Len(loaded[c]) :
           i # LineIndex + 1 => content[c][i] = loaded[c][i]

----------------------------------------------------------------------------
(* C10.  fix-print-python.py and then fix-print-final2.py: when every       *)
(* reply.view('print/manage' of the Document has, after its surplus closing *)
(* quotes, at most one comma, every reply.view('print/manage' of the result *)
(* is followed by exactly one comma; where fix-print-python.py left two     *)
(* commas (the occurrence had one already), fix-print-final2.py removes one.*)

AtMostOneComma(t) ==
  \A e \in ViewEnds(t) : RunAfter(t, e + RunAfter(t, e, Quote), Comma) <= 1

ExactlyOneComma(t) == \A e \in ViewEnds(t) : RunAfter(t, e, Comma) = 1

PythonThenFinal2 == script[1] = PythonScript /\ script[2] = Final2Script

C10_ExactlyOneComma ==
  (Wrote(2) /\ PythonThenFinal2 /\ AtMostOneComma(loaded[1])) =>
    /\ ExactlyOneComma(content[2])
    /\ ExactlyOneComma(Decode(file.data))
    /\ Cardinality(ViewEnds(content[2])) = Cardinality(ViewEnds(loaded[1]))
    /\ Contains(loaded[1], ReplyView \o <<Comma>>) =>
         /\ Contains(content[1], ReplyView \o <<Comma, Comma>>)
         /\ ~Contains(content[2], ReplyView \o <<Comma, Comma>>)

C10_Witness ==
  /\ pc[2] = "done" /\ PythonThenFinal2
  /\ orig.data = ReplyView \o <<Comma>>
  /\ content[1] = ReplyView \o <<Comma, Comma>>
  /\ file.data = ReplyView \o <<Comma>>
=============================================================================
